---- MODULE Spec2Model ----
(***************************************************************************)
(* Model of the VF node: the VRF engine (vrf_engine.rs), the coinflip      *)
(* handler (main_settlement_broken.rs) and the settlement pipeline         *)
(* (settlement_engine.rs) over its SQLite store (storage.rs).              *)
(***************************************************************************)
EXTENDS Integers, Sequences, FiniteSets, TLC

(***************************************************************************)
(* Bounds of the model.                                                    *)
(***************************************************************************)
\* bets enqueued in one run
MaxBets == 2
\* coinflip handlers running concurrently (tokio worker threads)
NumHandlers == 2
\* last value of the wall clock, in half seconds
MaxClock == 2
\* SettlementEngine::new(db_pool, batch_size, ..): bets per settlement batch
batch_size == 2
\* store errors and crashes in one run
MaxFaults == 1
\* coinflip requests handled in one run of the engine
MaxCalls == 2

(***************************************************************************)
(* Program constants.                                                      *)
(***************************************************************************)
max_retries == 3
FlushThreshold == 100
MaxSeedLen == 1024
SignatureLen == 64
ChallengeLen == 64
KeyLen == 32
OutputLen == 8

Handlers == 1 .. NumHandlers
BetIds == 1 .. MaxBets

NULL == <<>>
Some(v) == <<v>>

Min(a, b) == IF a < b THEN a ELSE b

RECURSIVE SeqRange(_)
SeqRange(s) == IF s = <<>> THEN {} ELSE {Head(s)} \cup SeqRange(Tail(s))

(***************************************************************************)
(* Timestamps.  An OffsetDateTime is a number of half seconds.  In the     *)
(* store it is RFC 3339 text: the whole-second part (fixed width, so it    *)
(* compares as a number), then the fraction with its trailing zeros        *)
(* dropped (nothing at all for a whole second), then "Z".  Text is a       *)
(* sequence of character codes ('.' = 46, '5' = 53, 'Z' = 90) and SQLite   *)
(* orders a TEXT column bytewise.                                          *)
(***************************************************************************)
Rfc3339Format(t) ==
    IF t % 2 = 0 THEN <<t \div 2, 90>> ELSE <<t \div 2, 46, 53, 90>>

Rfc3339Parse(txt) ==
    IF txt[2] = 46 THEN 2 * txt[1] + 1 ELSE 2 * txt[1]

RECURSIVE TextLess(_, _)
TextLess(a, b) ==
    IF b = <<>> THEN FALSE
    ELSE IF a = <<>> THEN TRUE
    ELSE IF Head(a) # Head(b) THEN Head(a) < Head(b)
    ELSE TextLess(Tail(a), Tail(b))

(***************************************************************************)
(* Errors and results.                                                     *)
(***************************************************************************)
InvalidInput(msg) == [kind |-> "InvalidInput", msg |-> msg]
InvalidProof(msg) == [kind |-> "InvalidProof", msg |-> msg]
Ok(v) == [ok |-> TRUE, val |-> v]
Err(e) == [ok |-> FALSE, err |-> e]

\* #[error("Invalid input: {0}")] and the other Display strings of VfError
ErrorToString(e) ==
    IF e.kind = "InvalidInput" THEN <<"Invalid input: ", e.msg>>
    ELSE IF e.kind = "InvalidProof" THEN <<"Invalid proof: ", e.msg>>
    ELSE <<"VRF generation failed: ", e.msg>>

(***************************************************************************)
(* Bytes and text.  A byte string is a sequence of 0..255.  Base64 text is *)
(* a sequence of characters: 0..63 the characters of the standard          *)
(* alphabet, 64 the padding '=', 65 a character outside the alphabet.      *)
(***************************************************************************)
\* the sequence f, with every element computed once
SeqOf(f) == f @@ <<>>

RECURSIVE Base64Encode(_)
Base64Encode(b) ==
    IF b = <<>> THEN <<>>
    ELSE IF Len(b) = 1 THEN <<b[1] \div 4, (b[1] % 4) * 16, 64, 64>>
    ELSE IF Len(b) = 2
    THEN <<b[1] \div 4, (b[1] % 4) * 16 + b[2] \div 16, (b[2] % 16) * 4, 64>>
    ELSE <<b[1] \div 4, (b[1] % 4) * 16 + b[2] \div 16,
           (b[2] % 16) * 4 + b[3] \div 64, b[3] % 64>>
         \o Base64Encode(SubSeq(b, 4, Len(b)))

\* one group of four characters; padding is accepted in the last group only, and
\* the bits a padded group leaves over must be zero
Base64Group(c, last) ==
    IF c[1] < 64 /\ c[2] < 64 /\ c[3] < 64 /\ c[4] < 64
    THEN Ok(<<c[1] * 4 + c[2] \div 16, (c[2] % 16) * 16 + c[3] \div 4,
              (c[3] % 4) * 64 + c[4]>>)
    ELSE IF last /\ c[1] < 64 /\ c[2] < 64 /\ c[3] < 64 /\ c[4] = 64 /\ c[3] % 4 = 0
    THEN Ok(<<c[1] * 4 + c[2] \div 16, (c[2] % 16) * 16 + c[3] \div 4>>)
    ELSE IF last /\ c[1] < 64 /\ c[2] < 64 /\ c[3] = 64 /\ c[4] = 64 /\ c[2] % 16 = 0
    THEN Ok(<<c[1] * 4 + c[2] \div 16>>)
    ELSE Err("DecodeError")

RECURSIVE Base64Decode(_)
Base64Decode(t) ==
    IF t = <<>> THEN Ok(<<>>)
    ELSE IF Len(t) < 4 THEN Err("DecodeError")
    ELSE LET g == Base64Group(SubSeq(t, 1, 4), Len(t) = 4)
         IN  IF ~g.ok THEN g
             ELSE LET rest == Base64Decode(SubSeq(t, 5, Len(t)))
                  IN  IF rest.ok THEN Ok(g.val \o rest.val) ELSE rest

\* the n low bytes of x, little-endian
RECURSIVE LeBytes(_, _)
LeBytes(x, n) == IF n = 0 THEN <<>> ELSE <<x % 256>> \o LeBytes(x \div 256, n - 1)

\* a u64 is four 16-bit limbs, the low one first
U64FromLeBytes(b) == SeqOf([k \in 1 .. 4 |-> b[2 * k - 1] + 256 * b[2 * k]])

\* the eight bytes of a u64, the high one first
U64ToBeBytes(v) ==
    SeqOf([i \in 1 .. OutputLen |->
        IF i % 2 = 1 THEN v[(OutputLen - i + 1) \div 2] \div 256
        ELSE v[(OutputLen - i + 2) \div 2] % 256])

U64ToLeBytes(v) ==
    SeqOf([i \in 1 .. OutputLen |->
        IF i % 2 = 1 THEN v[(i + 1) \div 2] % 256 ELSE v[i \div 2] \div 256])

\* a user_seed is len copies of the character fill
SeedString(len, fill) == [len |-> len, fill |-> fill]
as_bytes(str) == SeqOf([i \in 1 .. str.len |-> str.fill])

(***************************************************************************)
(* The cryptographic primitives.  SHA-256, the Merlin transcript and       *)
(* Ed25519 are library code; each is a fixed function of its input here,   *)
(* with outputs of the library's sizes.  Ed25519 signs deterministically   *)
(* and a key and message have one valid signature.                         *)
(***************************************************************************)
LabelCode(l) ==
    CASE l = "dom-sep" -> 1
      [] l = "user_seed" -> 2
      [] l = "node_pubkey" -> 3
      [] l = "timestamp" -> 4
      [] l = "seed_commit" -> 5
      [] l = "challenge" -> 6
      [] OTHER -> 7

\* what one transcript entry adds to the running state h
Absorb(h, e) ==
    (h * 131 + LabelCode(e[1]) * 17 + Len(e[2]) * 7
     + (IF e[2] = <<>> THEN 0
        ELSE e[2][1] * 3 + e[2][Len(e[2])] * 5 + e[2][(Len(e[2]) + 1) \div 2]))
    % 65521

RECURSIVE AbsorbAll(_, _, _)
AbsorbAll(h, entries, k) ==
    IF k > Len(entries) THEN h
    ELSE AbsorbAll(Absorb(h, entries[k]), entries, k + 1)

Squeeze(h, n) ==
    SeqOf([i \in 1 .. n |->
        ((h % 256) * (2 * i + 1) + (h \div 256) * (i + 3) + i * i) % 256])

Digest(entries, n) == Squeeze(AbsorbAll(7, entries, 1), n)

Sha256(bytes) == Digest(<<<<"sha256", bytes>>>>, 32)

\* merlin::Transcript
TranscriptNew(label) == <<<<"dom-sep", <<>>>>, <<label, <<>>>>>>
append_message(transcript, label, bytes) == Append(transcript, <<label, bytes>>)
append_u64(transcript, label, x) == Append(transcript, <<label, LeBytes(x, 8)>>)
challenge_bytes(transcript, label, n) == Digest(Append(transcript, <<label, <<>>>>), n)

\* SigningKey::from_bytes(seed).verifying_key()
VerifyingKeyOf(sk) == SeqOf([i \in 1 .. KeyLen |-> (sk[i] * 7 + 3 * i + 11) % 256])

\* [s; 32]
SeedBytes(s) == SeqOf([i \in 1 .. KeyLen |-> s])
KeySeeds == {SeedBytes(1), SeedBytes(42)}

\* signing_key.sign(msg)
Ed25519Sign(sk, msg) ==
    SeqOf([i \in 1 .. SignatureLen |->
        (sk[1 + (i % KeyLen)] * 5 + msg[1 + (i % Len(msg))] * 3 + i) % 256])

\* verifying_key.verify(msg, signature)
Ed25519Verify(vk, msg, sig) ==
    \E sk \in KeySeeds : VerifyingKeyOf(sk) = vk /\ sig = Ed25519Sign(sk, msg)

(***************************************************************************)
(* VrfEngine.                                                              *)
(***************************************************************************)
from_seed(seed) == [signing_key |-> seed, verifying_key |-> VerifyingKeyOf(seed)]

node_pubkey(e) == Base64Encode(e.verifying_key)

\* a validation that also turns away a seed of exactly 1024 bytes
validate_request_off_by_one(req) ==
    IF req.user_seed.len = 0
    THEN Err(InvalidInput("User seed cannot be empty"))
    ELSE IF req.user_seed.len >= MaxSeedLen
    THEN Err(InvalidInput("User seed too long"))
    ELSE Ok(<<>>)

validate_request(req) ==
    IF req.user_seed.len = 0
    THEN Err(InvalidInput("User seed cannot be empty"))
    ELSE IF req.user_seed.len > MaxSeedLen
    THEN Err(InvalidInput("User seed too long"))
    ELSE Ok(<<>>)

build_transcript(e, req) ==
    append_u64(
        append_message(
            append_message(TranscriptNew("vf_coinflip"),
                           "user_seed", as_bytes(req.user_seed)),
            "node_pubkey", e.verifying_key),
        "timestamp", req.timestamp)

\* a commitment computed from the transcript of the request instead of the key
generate_vrf_request_commit(e, transcript) ==
    LET seed_commit == Sha256(challenge_bytes(transcript, "seed_commit", KeyLen))
        hash_transcript == append_message(transcript, "seed_commit", seed_commit)
        challenge == challenge_bytes(hash_transcript, "challenge", ChallengeLen)
        signature == Ed25519Sign(e.signing_key, challenge)
        output_hash == Sha256(signature)
    IN  [random_value |-> U64FromLeBytes(SubSeq(output_hash, 1, OutputLen)),
         vrf_proof_bytes |-> signature,
         seed_commit |-> Base64Encode(seed_commit)]

generate_vrf(e, transcript) ==
    LET seed_commit == Sha256(e.verifying_key)
        hash_transcript == append_message(transcript, "seed_commit", seed_commit)
        challenge == challenge_bytes(hash_transcript, "challenge", ChallengeLen)
        signature == Ed25519Sign(e.signing_key, challenge)
        output_hash == Sha256(signature)
    IN  [random_value |-> U64FromLeBytes(SubSeq(output_hash, 1, OutputLen)),
         vrf_proof_bytes |-> signature,
         seed_commit |-> Base64Encode(seed_commit)]

\* the low bit of a u64
LowBit(v) == v[1] % 2

\* an engine that puts the time of the call, not the request's timestamp, in the
\* transcript
process_coinflip_clock(e, req, now, elapsed) ==
    IF ~validate_request(req).ok THEN validate_request(req)
    ELSE LET g == generate_vrf(e, build_transcript(e, [req EXCEPT !.timestamp = now]))
         IN  Ok([node_id |-> node_pubkey(e),
                 heads |-> LowBit(g.random_value) = 0,
                 proof |-> [seed_commitment |-> g.seed_commit,
                            vrf_output |-> Base64Encode(U64ToLeBytes(g.random_value)),
                            signature |-> Base64Encode(g.vrf_proof_bytes)],
                 timestamp |-> now \div 2,
                 processing_time_ms |-> elapsed])

\* process_coinflip at wall-clock time now, taking elapsed ms
process_coinflip(e, req, now, elapsed) ==
    IF ~validate_request(req).ok THEN validate_request(req)
    ELSE LET g == generate_vrf(e, build_transcript(e, req))
         IN  Ok([node_id |-> node_pubkey(e),
                 heads |-> LowBit(g.random_value) = 0,
                 proof |-> [seed_commitment |-> g.seed_commit,
                            vrf_output |-> Base64Encode(U64ToLeBytes(g.random_value)),
                            signature |-> Base64Encode(g.vrf_proof_bytes)],
                 timestamp |-> now \div 2,
                 processing_time_ms |-> elapsed])

\* a verification that leaves seed_commit out of the transcript
verify_proof_no_commit(e, proof, req) ==
    LET seed_commit == Base64Decode(proof.seed_commitment)
        signature_bytes == Base64Decode(proof.signature)
    IN  IF ~seed_commit.ok
        THEN Err(InvalidProof("Invalid seed commitment encoding"))
        ELSE IF ~signature_bytes.ok
        THEN Err(InvalidProof("Invalid signature encoding"))
        ELSE IF Len(signature_bytes.val) # SignatureLen
        THEN Err(InvalidProof("Invalid signature length"))
        ELSE IF ~Ed25519Verify(e.verifying_key,
                     challenge_bytes(build_transcript(e, req), "challenge",
                                     ChallengeLen),
                     signature_bytes.val)
        THEN Err(InvalidProof("Signature verification failed"))
        ELSE Ok(TRUE)

\* a verification that checks the encoding and the length and nothing else
verify_proof_unchecked(e, proof, req) ==
    LET seed_commit == Base64Decode(proof.seed_commitment)
        signature_bytes == Base64Decode(proof.signature)
    IN  IF ~seed_commit.ok
        THEN Err(InvalidProof("Invalid seed commitment encoding"))
        ELSE IF ~signature_bytes.ok
        THEN Err(InvalidProof("Invalid signature encoding"))
        ELSE IF Len(signature_bytes.val) # SignatureLen
        THEN Err(InvalidProof("Invalid signature length"))
        ELSE Ok(TRUE)

\* a verification that answers Ok(false) to a proof it cannot decode
verify_proof_false_on_malformed(e, proof, req) ==
    LET transcript == build_transcript(e, req)
        seed_commit == Base64Decode(proof.seed_commitment)
        signature_bytes == Base64Decode(proof.signature)
    IN  IF ~seed_commit.ok THEN Ok(FALSE)
        ELSE IF ~signature_bytes.ok THEN Ok(FALSE)
        ELSE IF Len(signature_bytes.val) # SignatureLen THEN Ok(FALSE)
        ELSE IF ~Ed25519Verify(e.verifying_key,
                     challenge_bytes(
                         append_message(transcript, "seed_commit", seed_commit.val),
                         "challenge", ChallengeLen),
                     signature_bytes.val)
        THEN Err(InvalidProof("Signature verification failed"))
        ELSE Ok(TRUE)

\* a verification that also recomputes vrf_output from the signature
verify_proof_checks_output(e, proof, req) ==
    LET transcript == build_transcript(e, req)
        seed_commit == Base64Decode(proof.seed_commitment)
        signature_bytes == Base64Decode(proof.signature)
        vrf_output == Base64Decode(proof.vrf_output)
    IN  IF ~seed_commit.ok
        THEN Err(InvalidProof("Invalid seed commitment encoding"))
        ELSE IF ~signature_bytes.ok
        THEN Err(InvalidProof("Invalid signature encoding"))
        ELSE IF Len(signature_bytes.val) # SignatureLen
        THEN Err(InvalidProof("Invalid signature length"))
        ELSE IF ~Ed25519Verify(e.verifying_key,
                     challenge_bytes(
                         append_message(transcript, "seed_commit", seed_commit.val),
                         "challenge", ChallengeLen),
                     signature_bytes.val)
        THEN Err(InvalidProof("Signature verification failed"))
        ELSE IF \/ ~vrf_output.ok
                \/ vrf_output.val # SubSeq(Sha256(signature_bytes.val), 1, OutputLen)
        THEN Err(InvalidProof("Output mismatch"))
        ELSE Ok(TRUE)

verify_proof(e, proof, req) ==
    LET transcript == build_transcript(e, req)
        seed_commit == Base64Decode(proof.seed_commitment)
        signature_bytes == Base64Decode(proof.signature)
    IN  IF ~seed_commit.ok
        THEN Err(InvalidProof("Invalid seed commitment encoding"))
        ELSE IF ~signature_bytes.ok
        THEN Err(InvalidProof("Invalid signature encoding"))
        ELSE IF Len(signature_bytes.val) # SignatureLen
        THEN Err(InvalidProof("Invalid signature length"))
        ELSE IF ~Ed25519Verify(e.verifying_key,
                     challenge_bytes(
                         append_message(transcript, "seed_commit", seed_commit.val),
                         "challenge", ChallengeLen),
                     signature_bytes.val)
        THEN Err(InvalidProof("Signature verification failed"))
        ELSE Ok(TRUE)

VARIABLES
    clock,               \* the wall clock
    next_uuid,           \* Uuid::new_v4() values drawn for batches and signatures
    next_bet,            \* Uuid::new_v4() values drawn for bets
    handlers,            \* per handler: <<>> or <<bet>> built and not yet sent
    chan,                \* the unbounded channel bet_sender -> bet_receiver
    batch_buffer,        \* the drainer's buffer
    pending_bets,        \* table pending_bets: bet_id -> row
    settlement_batches,  \* table settlement_batches, in insertion order
    retry_queue,         \* the in-memory retry queue
    spc,                 \* where the settlement task is
    settlement_batch,    \* the SettlementBatch handed to the driver, or NULL
    result,              \* what the driver returned, or NULL
    batch,               \* the Vec the settlement task is working on
    idx,                 \* how many of its bets the current loop has done
    batch_result,        \* BatchResult of the batch in flight, or NULL
    tx,                  \* statements of the open transaction
    stats,               \* SettlementStats
    driver_fails,        \* history: per bet, driver failures of batches holding it
    submits,             \* history: per bet, driver calls on batches holding it
    faults,              \* history: store errors and crashes so far
    last_fault,          \* history: where the latest store error or crash struck
    engines,             \* the VrfEngine values: signing_key and verifying_key
    calls,               \* history: the coinflip requests handled, with their results
    last_verify,         \* history: the latest verify_proof call and its result
    receiver_open,       \* whether bet_receiver is alive (the drainer task holds it)
    enqueued,            \* history: the enqueue_bet_fast calls that returned
    in_flight,           \* history: batches collected and not yet finished
    inserted,            \* history: bet ids in the order their rows were inserted
    flush_failed         \* history: ids of the bets of buffers whose flush failed

vars == <<clock, next_uuid, next_bet, handlers, chan, batch_buffer, pending_bets,
          settlement_batches, retry_queue, spc, settlement_batch, result, batch, idx,
          batch_result, tx, stats, driver_fails, submits, faults, last_fault,
          engines, calls, last_verify, receiver_open, enqueued, in_flight, inserted,
                   flush_failed>>

(***************************************************************************)
(* PendingBet and the rows of pending_bets.                                *)
(***************************************************************************)
NewPendingBet(bet_response, request, id, now) ==
    [bet_id |-> id,
     user_seed |-> request.user_seed,
     timestamp |-> request.timestamp,
     node_id |-> bet_response.node_id,
     heads |-> bet_response.heads,
     vrf_proof |-> bet_response.proof.signature,
     processing_time_ms |-> bet_response.processing_time_ms,
     processed_at |-> now,
     retry_count |-> 0]

\* INSERT INTO pending_bets (...) VALUES (..., 'pending')
RowOfBet(bet) ==
    [bet_id |-> bet.bet_id,
     user_seed |-> bet.user_seed,
     timestamp |-> bet.timestamp,
     node_id |-> bet.node_id,
     heads |-> bet.heads,
     vrf_proof |-> bet.vrf_proof,
     processing_time_ms |-> bet.processing_time_ms,
     processed_at |-> Rfc3339Format(bet.processed_at),
     retry_count |-> bet.retry_count,
     status |-> "pending",
     tx_signature |-> NULL,
     settled_at |-> NULL,
     failed_at |-> NULL,
     error_message |-> NULL]

\* the PendingBet built from a SELECT * row
BetOfRow(row) ==
    [bet_id |-> row.bet_id,
     user_seed |-> row.user_seed,
     timestamp |-> row.timestamp,
     node_id |-> row.node_id,
     heads |-> row.heads,
     vrf_proof |-> row.vrf_proof,
     processing_time_ms |-> row.processing_time_ms,
     processed_at |-> Rfc3339Parse(row.processed_at),
     retry_count |-> row.retry_count]

\* the request and the response the handlers of the pipeline are fed with
PipelineRequest == [user_seed |-> SeedString(4, 115), timestamp |-> 0]
PipelineResponse ==
    process_coinflip(from_seed(SeedBytes(1)), PipelineRequest, 0, 0).val

(***************************************************************************)
(* The store.  db is the pair of tables.                                   *)
(***************************************************************************)
Db(bets, batches) == [pending_bets |-> bets, settlement_batches |-> batches]

\* a flush that inserts the first bet of the buffer only
InsertFirstOnly(bets, buf) ==
    [id \in DOMAIN bets \cup {buf[1].bet_id} |->
        IF id \in DOMAIN bets THEN bets[id] ELSE RowOfBet(buf[1])]

\* flush_batch_to_db: one transaction inserting every bet of the buffer
InsertPendingBets(bets, buf) ==
    LET new == {buf[i].bet_id : i \in DOMAIN buf}
        betOf(id) == buf[CHOOSE i \in DOMAIN buf : buf[i].bet_id = id]
    IN  [id \in DOMAIN bets \cup new |->
            IF id \in DOMAIN bets THEN bets[id] ELSE RowOfBet(betOf(id))]

\* an UPDATE that sets the status and leaves tx_signature and settled_at alone
UpdateSettledStatusOnly(bets, id, sig, at) ==
    IF id \in DOMAIN bets
    THEN [bets EXCEPT ![id] = [@ EXCEPT !.status = "settled"]]
    ELSE bets

\* the UPDATE without its WHERE clause: it reaches every row of the table
UpdateSettledEveryRow(bets, id, sig, at) ==
    [i \in DOMAIN bets |-> [bets[i] EXCEPT !.status = "settled",
                                           !.tx_signature = Some(sig),
                                           !.settled_at = Some(at)]]

\* UPDATE pending_bets SET status = 'settled', tx_signature = ?, settled_at = ?
\* WHERE bet_id = ?
UpdateSettled(bets, id, sig, at) ==
    IF id \in DOMAIN bets
    THEN [bets EXCEPT ![id] = [@ EXCEPT !.status = "settled",
                                        !.tx_signature = Some(sig),
                                        !.settled_at = Some(at)]]
    ELSE bets

\* a DELETE of the row in place of the UPDATE
DeleteFailed(bets, id, msg, at) == [i \in DOMAIN bets \ {id} |-> bets[i]]

\* an UPDATE that sets the status and the message and leaves failed_at alone
UpdateFailedNoTime(bets, id, msg, at) ==
    IF id \in DOMAIN bets
    THEN [bets EXCEPT ![id] = [@ EXCEPT !.status = "failed",
                                        !.error_message = Some(msg)]]
    ELSE bets

\* UPDATE pending_bets SET status = 'failed', error_message = ?, failed_at = ?
\* WHERE bet_id = ?
UpdateFailed(bets, id, msg, at) ==
    IF id \in DOMAIN bets
    THEN [bets EXCEPT ![id] = [@ EXCEPT !.status = "failed",
                                        !.error_message = Some(msg),
                                        !.failed_at = Some(at)]]
    ELSE bets

\* a batch row that records the batch as unsuccessful
BatchRowUnsuccessful(res) ==
    [batch_id |-> res.batch_id,
     bet_count |-> res.processed_count,
     processing_time_ms |-> res.processing_time_ms,
     tx_signature |-> res.mock_tx_signature,
     success |-> FALSE,
     created_at |-> Rfc3339Format(res.timestamp)]

\* INSERT INTO settlement_batches (...)
BatchRow(res) ==
    [batch_id |-> res.batch_id,
     bet_count |-> res.processed_count,
     processing_time_ms |-> res.processing_time_ms,
     tx_signature |-> res.mock_tx_signature,
     success |-> res.success,
     created_at |-> Rfc3339Format(res.timestamp)]

\* one statement applied to the tables
ApplyStmt(db, stmt) ==
    IF stmt.op = "settle"
    THEN Db(UpdateSettled(db.pending_bets, stmt.bet_id, stmt.sig, stmt.at),
            db.settlement_batches)
    ELSE IF stmt.op = "insert"
    THEN Db([id \in DOMAIN db.pending_bets \cup {stmt.bet.bet_id} |->
                IF id \in DOMAIN db.pending_bets THEN db.pending_bets[id]
                ELSE RowOfBet(stmt.bet)],
            db.settlement_batches)
    ELSE Db(db.pending_bets, Append(db.settlement_batches, stmt.row))

RECURSIVE ApplyAll(_, _)
ApplyAll(db, log) ==
    IF log = <<>> THEN db ELSE ApplyAll(ApplyStmt(db, Head(log)), Tail(log))

\* a statement run on the pool instead of the transaction: it commits at once
TxExecuteAutocommit(db, log, stmt) == [db |-> ApplyStmt(db, stmt), log |-> log]

\* .execute(&mut *tx): the statement joins the open transaction and the tables
\* other connections see are unchanged until the commit
TxExecute(db, log, stmt) == [db |-> db, log |-> Append(log, stmt)]

\* tx.commit()
TxCommit(db, log) == ApplyAll(db, log)

\* an INSERT of the flush run on the pool: it commits at once
FlushExecuteOnPool(db, log, stmt) == TxExecuteAutocommit(db, log, stmt)

\* flush_batch_to_db: .execute(&mut *tx) of one INSERT
FlushExecute(db, log, stmt) == TxExecute(db, log, stmt)

\* the first n INSERTs of a flush, executed in buffer order
RECURSIVE FlushStatements(_, _, _, _)
FlushStatements(db, log, buf, n) ==
    IF n = 0 THEN [db |-> db, log |-> log]
    ELSE LET r == FlushStatements(db, log, buf, n - 1)
         IN  FlushExecute(r.db, r.log, [op |-> "insert", bet |-> buf[n]])

\* flush_batch_to_db on a buffer: fail_at = 0 when every statement and the commit
\* succeed, which inserts every bet; otherwise statement fail_at (the commit when
\* fail_at = Len(buf) + 1) fails, `?` returns the error and the dropped
\* transaction is rolled back
flush_batch_to_db(db, buf, fail_at) ==
    IF fail_at = 0
    THEN [db |-> Db(InsertPendingBets(db.pending_bets, buf), db.settlement_batches),
          result |-> Ok(<<>>)]
    ELSE [db |-> FlushStatements(db, <<>>, buf, fail_at - 1).db,
          result |-> Err(InvalidInput("Database error"))]

\* SELECT * FROM pending_bets WHERE status = 'pending' ORDER BY processed_at ASC
\* LIMIT ?  -- every result the query may give (rows of equal processed_at come in
\* any order)
PendingIds(bets) == {id \in DOMAIN bets : bets[id].status = "pending"}

OrderedByProcessedAt(bets, ids) ==
    {q \in [1 .. Cardinality(ids) -> ids] :
        /\ \A i, j \in DOMAIN q : i # j => q[i] # q[j]
        /\ \A i, j \in DOMAIN q :
              i < j => ~TextLess(bets[q[j]].processed_at, bets[q[i]].processed_at)}

SelectPending(bets, limit) ==
    {SubSeq(q, 1, Min(limit, Len(q))) : q \in OrderedByProcessedAt(bets, PendingIds(bets))}

\* the startup query without its retry_count > 0 condition
SelectEveryPending(bets) == OrderedByProcessedAt(bets, PendingIds(bets))

\* ... WHERE status = 'pending' AND retry_count > 0 ORDER BY processed_at ASC
SelectRetrySurvivors(bets) ==
    OrderedByProcessedAt(bets, {id \in PendingIds(bets) : bets[id].retry_count > 0})

RowsToBets(bets, q) == [i \in DOMAIN q |-> BetOfRow(bets[q[i]])]

(***************************************************************************)
(* Ingress: enqueue_bet_fast.  The bet is built (its processed_at read     *)
(* from the clock) and then sent; handlers run on several threads, so the  *)
(* two steps of different handlers interleave.                             *)
(***************************************************************************)
\* a send that reports success when the receiver is gone
bet_sender_send_silent(open, ch, bet) ==
    [chan |-> IF open THEN Append(ch, bet) ELSE ch, result |-> Ok(<<>>)]

\* bet_sender.send(bet): what the channel holds afterwards and what the call
\* returns; the send fails when the receiver is gone
bet_sender_send(open, ch, bet) ==
    IF open
    THEN [chan |-> Append(ch, bet), result |-> Ok(<<>>)]
    ELSE [chan |-> ch, result |-> Err(InvalidInput("Settlement channel closed"))]

\* enqueue_bet_fast up to the send, while fewer than cap bets were built
EnqueueBuildUpTo(h, cap) ==
    /\ handlers[h] = <<>>
    /\ next_bet <= cap
    /\ handlers' = [handlers EXCEPT ![h] =
           <<NewPendingBet(PipelineResponse, PipelineRequest, next_bet, clock)>>]
    /\ next_bet' = next_bet + 1
    /\ UNCHANGED <<clock, next_uuid, chan, batch_buffer, pending_bets,
                   settlement_batches, retry_queue, spc, settlement_batch, result,
                   batch, idx, batch_result, tx, stats, driver_fails, submits, faults,
                   last_fault, engines, calls, last_verify, receiver_open, enqueued,
                   in_flight, inserted,
                   flush_failed>>

EnqueueBuild(h) == EnqueueBuildUpTo(h, MaxBets)

EnqueueSend(h) ==
    /\ handlers[h] # <<>>
    /\ LET sent == bet_sender_send(receiver_open, chan, handlers[h][1])
       IN  /\ chan' = sent.chan
           /\ enqueued' = Append(enqueued,
                  [bet |-> handlers[h][1], request |-> PipelineRequest,
                   response |-> PipelineResponse, result |-> sent.result])
    /\ handlers' = [handlers EXCEPT ![h] = <<>>]
    /\ UNCHANGED <<clock, next_uuid, next_bet, batch_buffer, pending_bets,
                   settlement_batches, retry_queue, spc, settlement_batch, result,
                   batch, idx, batch_result, tx, stats, driver_fails, submits, faults,
                   last_fault, engines, calls, last_verify, receiver_open,
                   in_flight, inserted,
                   flush_failed>>

ClockTick ==
    /\ clock < MaxClock
    /\ clock' = clock + 1
    /\ UNCHANGED <<next_uuid, next_bet, handlers, chan, batch_buffer, pending_bets,
                   settlement_batches, retry_queue, spc, settlement_batch, result,
                   batch, idx, batch_result, tx, stats, driver_fails, submits, faults,
                   last_fault, engines, calls, last_verify, receiver_open, enqueued,
                   in_flight, inserted,
                   flush_failed>>

(***************************************************************************)
(* The drainer task.  Whether more than 10 ms have passed since the last   *)
(* flush is up to the scheduler.                                           *)
(***************************************************************************)
\* flush_batch_to_db: the bet ids in the order of its INSERT statements
flush_order(buf) == [i \in DOMAIN buf |-> buf[i].bet_id]

\* a receive that takes the newest message of the channel
try_recv_newest(ch) ==
    [bet |-> ch[Len(ch)], rest |-> SubSeq(ch, 1, Len(ch) - 1)]

\* a drainer that keeps the buffer when its flush failed
keep_on_error(buf, flush_result) == IF flush_result.ok THEN <<>> ELSE buf

\* batch_buffer.clear() after flush_batch_to_db, whatever it returned
clear(buf, flush_result) == <<>>

\* bet_receiver.try_recv() on a channel that holds a message
try_recv(ch) == [bet |-> Head(ch), rest |-> Tail(ch)]

DrainRecv ==
    /\ receiver_open
    /\ chan # <<>>
    /\ chan' = try_recv(chan).rest
    /\ LET buf == Append(batch_buffer, try_recv(chan).bet)
       IN  \E elapsed \in BOOLEAN :
              IF Len(buf) >= FlushThreshold \/ elapsed
              THEN LET flush == flush_batch_to_db(
                                    Db(pending_bets, settlement_batches), buf, 0)
                   IN  /\ pending_bets' = flush.db.pending_bets
                       /\ inserted' = inserted \o flush_order(buf)
                       /\ batch_buffer' = clear(buf, flush.result)
              ELSE /\ batch_buffer' = buf
                   /\ UNCHANGED <<pending_bets, inserted>>
    /\ UNCHANGED <<clock, next_uuid, next_bet, handlers, settlement_batches,
                   retry_queue, spc, settlement_batch, result, batch, idx,
                   batch_result, tx, stats, driver_fails, submits, faults, last_fault,
                   engines, calls, last_verify, receiver_open, enqueued, in_flight,
                   flush_failed>>

DrainPeriodicFlush ==
    /\ receiver_open
    /\ chan = <<>>
    /\ batch_buffer # <<>>
    /\ LET flush == flush_batch_to_db(Db(pending_bets, settlement_batches),
                                      batch_buffer, 0)
       IN  /\ pending_bets' = flush.db.pending_bets
           /\ inserted' = inserted \o flush_order(batch_buffer)
           /\ batch_buffer' = clear(batch_buffer, flush.result)
    /\ UNCHANGED <<clock, next_uuid, next_bet, handlers, chan, settlement_batches,
                   retry_queue, spc, settlement_batch, result, batch, idx,
                   batch_result, tx, stats, driver_fails, submits, faults, last_fault,
                   engines, calls, last_verify, receiver_open, enqueued, in_flight,
                   flush_failed>>

(***************************************************************************)
(* The settlement task: run_settlement_loop.                               *)
(***************************************************************************)
\* a collection whose loop over the retry queue stops one entry early
collect_batch_pop_short(rq, bets) ==
    LET n == Min(Len(rq), batch_size - 1)
        popped == SubSeq(rq, 1, n)
        rest == SubSeq(rq, n + 1, Len(rq))
    IN  {[batch |-> popped \o RowsToBets(bets, q), retry_queue |-> rest] :
            q \in SelectPending(bets, batch_size - Len(popped))}

\* collect_batch_from_db: every (batch, retry queue left) it may return
collect_batch_from_db(rq, bets) ==
    LET n == Min(Len(rq), batch_size)
        popped == SubSeq(rq, 1, n)
        rest == SubSeq(rq, n + 1, Len(rq))
    IN  IF Len(popped) < batch_size
        THEN {[batch |-> popped \o RowsToBets(bets, q), retry_queue |-> rest] :
                 q \in SelectPending(bets, batch_size - Len(popped))}
        ELSE {[batch |-> popped, retry_queue |-> rest]}

\* mock_settle_batch sleeps 50 + 2 * bet_count ms
ProcessingTimeMs(n) == 50 + 2 * n

BetIdsOf(b) == {b[i].bet_id : i \in DOMAIN b}

update_stats_success(st, res) ==
    [st EXCEPT !.total_bets_processed = @ + res.processed_count,
               !.total_batches_processed = @ + 1,
               !.successful_batches = @ + 1,
               !.last_settlement_time = Some(res.timestamp),
               !.average_batch_size =
                   <<st.total_bets_processed + res.processed_count,
                     st.total_batches_processed + 1>>]

\* an update that counts the batch and not the failure
update_stats_failure_uncounted(st) ==
    [st EXCEPT !.total_batches_processed = @ + 1]

update_stats_failure(st) ==
    [st EXCEPT !.total_batches_processed = @ + 1,
               !.failed_batches = @ + 1]

\* handle_batch_failure: the test that sends an incremented bet back to the queue
IsRetryableStrict(bet) == bet.retry_count < max_retries

\* a test that sends a bet back to the queue once more
IsRetryableLoose(bet) == bet.retry_count <= max_retries + 1

IsRetryable(bet) == bet.retry_count <= max_retries

\* handle_batch_failure, lines 412-423: the bets to retry and the bets to fail
Retryable(b) ==
    SelectSeq([i \in DOMAIN b |-> [b[i] EXCEPT !.retry_count = @ + 1]], IsRetryable)

PermanentlyFailed(b) ==
    SelectSeq([i \in DOMAIN b |-> [b[i] EXCEPT !.retry_count = @ + 1]],
              LAMBDA bet : ~IsRetryable(bet))

\* back at interval.tick().await
BackToWait ==
    /\ in_flight' = in_flight \ {settlement_batch.batch_id}
    /\ spc' = "wait"
    /\ settlement_batch' = NULL
    /\ result' = NULL
    /\ batch' = <<>>
    /\ idx' = 0
    /\ batch_result' = NULL
    /\ tx' = <<>>

load_pending_bets_from_db ==
    /\ spc = "start"
    /\ \E q \in SelectRetrySurvivors(pending_bets) :
          retry_queue' = retry_queue \o RowsToBets(pending_bets, q)
    /\ spc' = "wait"
    /\ UNCHANGED <<clock, next_uuid, next_bet, handlers, chan, batch_buffer,
                   pending_bets, settlement_batches, settlement_batch, result, batch,
                   idx, batch_result, tx, stats, driver_fails, submits, faults,
                   last_fault, engines, calls, last_verify, receiver_open, enqueued,
                   in_flight, inserted,
                   flush_failed>>

\* a tick that does not wait for the batch before it
TickReadyDetached == spc \in {"wait", "driver"}

\* interval.tick().await is reached when process_settlement_batch has returned
TickReady == spc = "wait"

\* a tick: process_settlement_batch up to the driver call
Collect ==
    /\ TickReady
    /\ \E c \in collect_batch_from_db(retry_queue, pending_bets) :
          /\ retry_queue' = c.retry_queue
          /\ IF c.batch = <<>>
             THEN UNCHANGED <<next_uuid, spc, settlement_batch, batch, submits,
                              in_flight>>
             ELSE /\ next_uuid' = next_uuid + 1
                  /\ in_flight' = in_flight \cup {next_uuid}
                  /\ spc' = "driver"
                  /\ batch' = c.batch
                  /\ settlement_batch' =
                         [batch_id |-> next_uuid, bets |-> c.batch,
                          bet_count |-> Len(c.batch), created_at |-> clock]
                  /\ submits' = [id \in BetIds |->
                         IF id \in BetIdsOf(c.batch) THEN submits[id] + 1
                         ELSE submits[id]]
    /\ UNCHANGED <<clock, next_bet, handlers, chan, batch_buffer, pending_bets,
                   settlement_batches, result, idx, batch_result, tx, stats,
                   driver_fails, faults, last_fault, engines, calls, last_verify,
                   receiver_open, enqueued, inserted,
                   flush_failed>>

\* the driver returns a signature
DriverOk ==
    /\ spc = "driver"
    /\ result' = Ok(<<"mock_settlement_", next_uuid>>)
    /\ next_uuid' = next_uuid + 1
    /\ batch_result' =
           [batch_id |-> settlement_batch.batch_id,
            success |-> TRUE,
            processed_count |-> Len(batch),
            processing_time_ms |-> ProcessingTimeMs(settlement_batch.bet_count),
            mock_tx_signature |-> <<"mock_settlement_", next_uuid>>,
            timestamp |-> clock]
    /\ spc' = "mark"
    /\ idx' = 0
    /\ tx' = <<>>
    /\ UNCHANGED <<clock, next_bet, handlers, chan, batch_buffer, pending_bets,
                   settlement_batches, retry_queue, settlement_batch, batch, stats,
                   driver_fails, submits, faults, last_fault, engines, calls,
                   last_verify, receiver_open, enqueued, in_flight, inserted,
                   flush_failed>>

\* mark_batch_settled: one UPDATE of the loop over the batch
MarkSettledUpdate ==
    /\ spc = "mark"
    /\ idx < Len(batch)
    /\ LET r == TxExecute(Db(pending_bets, settlement_batches), tx,
                    [op |-> "settle", bet_id |-> batch[idx + 1].bet_id,
                     sig |-> batch_result.mock_tx_signature,
                     at |-> Rfc3339Format(batch_result.timestamp)])
       IN  /\ pending_bets' = r.db.pending_bets
           /\ settlement_batches' = r.db.settlement_batches
           /\ tx' = r.log
    /\ idx' = idx + 1
    /\ UNCHANGED <<clock, next_uuid, next_bet, handlers, chan, batch_buffer,
                   retry_queue, spc, settlement_batch, result, batch, batch_result,
                   stats, driver_fails, submits, faults, last_fault, engines, calls,
                   last_verify, receiver_open, enqueued, in_flight, inserted,
                   flush_failed>>

\* mark_batch_settled: the INSERT of the batch row and the commit; then
\* update_stats_success
MarkSettledCommit ==
    /\ spc = "mark"
    /\ idx = Len(batch)
    /\ LET r == TxExecute(Db(pending_bets, settlement_batches), tx,
                    [op |-> "batch", row |-> BatchRow(batch_result)])
           db == TxCommit(r.db, r.log)
       IN  /\ pending_bets' = db.pending_bets
           /\ settlement_batches' = db.settlement_batches
    /\ stats' = update_stats_success(stats, batch_result)
    /\ BackToWait
    /\ UNCHANGED <<clock, next_uuid, next_bet, handlers, chan, batch_buffer,
                   retry_queue, driver_fails, submits, faults, last_fault, engines,
                   calls, last_verify, receiver_open, enqueued, inserted,
                   flush_failed>>

\* a handle_batch_failure that also stores the new retry_count of the bets it
\* puts back on the queue
DriverErrPersisting ==
    /\ spc = "driver"
    /\ driver_fails' = [id \in BetIds |->
           IF id \in BetIdsOf(batch) THEN driver_fails[id] + 1 ELSE driver_fails[id]]
    /\ retry_queue' = retry_queue \o Retryable(batch)
    /\ pending_bets' = [id \in DOMAIN pending_bets |->
           IF \E i \in DOMAIN Retryable(batch) : Retryable(batch)[i].bet_id = id
           THEN [pending_bets[id] EXCEPT !.retry_count =
                    Retryable(batch)[CHOOSE i \in DOMAIN Retryable(batch) :
                                        Retryable(batch)[i].bet_id = id].retry_count]
           ELSE pending_bets[id]]
    /\ IF PermanentlyFailed(batch) = <<>>
       THEN /\ stats' = update_stats_failure(stats)
            /\ BackToWait
       ELSE /\ result' = Err(InvalidInput("Mock settlement timeout"))
            /\ batch' = PermanentlyFailed(batch)
            /\ idx' = 0
            /\ spc' = "fail"
            /\ UNCHANGED <<settlement_batch, batch_result, tx, stats, in_flight>>
    /\ UNCHANGED <<clock, next_uuid, next_bet, handlers, chan, batch_buffer,
                   settlement_batches, submits, faults, last_fault,
                   engines, calls, last_verify, receiver_open, enqueued,
                   inserted,
                   flush_failed>>

\* the driver fails: handle_batch_failure up to its loop over permanently_failed
DriverErr ==
    /\ spc = "driver"
    /\ driver_fails' = [id \in BetIds |->
           IF id \in BetIdsOf(batch) THEN driver_fails[id] + 1 ELSE driver_fails[id]]
    /\ retry_queue' = retry_queue \o Retryable(batch)
    /\ IF PermanentlyFailed(batch) = <<>>
       THEN /\ stats' = update_stats_failure(stats)
            /\ BackToWait
       ELSE /\ result' = Err(InvalidInput("Mock settlement timeout"))
            /\ batch' = PermanentlyFailed(batch)
            /\ idx' = 0
            /\ spc' = "fail"
            /\ UNCHANGED <<settlement_batch, batch_result, tx, stats, in_flight>>
    /\ UNCHANGED <<clock, next_uuid, next_bet, handlers, chan, batch_buffer,
                   pending_bets, settlement_batches, submits, faults, last_fault,
                   engines, calls, last_verify, receiver_open, enqueued,
                   inserted,
                   flush_failed>>

\* mark_bet_permanently_failed for the next bet of permanently_failed; after the
\* last one, update_stats_failure
MarkFailed ==
    /\ spc = "fail"
    /\ idx < Len(batch)
    /\ pending_bets' = UpdateFailed(pending_bets, batch[idx + 1].bet_id,
                                    ErrorToString(result.err), Rfc3339Format(clock))
    /\ IF idx + 1 = Len(batch)
       THEN /\ stats' = update_stats_failure(stats)
            /\ BackToWait
       ELSE /\ idx' = idx + 1
            /\ UNCHANGED <<spc, settlement_batch, result, batch, batch_result, tx,
                           stats, in_flight>>
    /\ UNCHANGED <<clock, next_uuid, next_bet, handlers, chan, batch_buffer,
                   settlement_batches, retry_queue, driver_fails, submits, faults,
                   last_fault, engines, calls, last_verify, receiver_open, enqueued, inserted,
                   flush_failed>>

(***************************************************************************)
(* The pipeline after SettlementEngine::new on a fresh store.              *)
(***************************************************************************)
InitStats ==
    [total_bets_processed |-> 0, total_batches_processed |-> 0,
     successful_batches |-> 0, failed_batches |-> 0,
     average_batch_size |-> <<0, 1>>, last_settlement_time |-> NULL]

InitPipeline ==
    /\ clock = 0
    /\ next_uuid = 1
    /\ next_bet = 1
    /\ handlers = [h \in Handlers |-> <<>>]
    /\ chan = <<>>
    /\ batch_buffer = <<>>
    /\ pending_bets = <<>>
    /\ settlement_batches = <<>>
    /\ retry_queue = <<>>
    /\ spc = "start"
    /\ settlement_batch = NULL
    /\ result = NULL
    /\ batch = <<>>
    /\ idx = 0
    /\ batch_result = NULL
    /\ tx = <<>>
    /\ stats = InitStats
    /\ driver_fails = [id \in BetIds |-> 0]
    /\ submits = [id \in BetIds |-> 0]
    /\ faults = 0
    /\ last_fault = <<"none", 0>>
    /\ receiver_open = TRUE
    /\ enqueued = <<>>
    /\ in_flight = {}
    /\ inserted = <<>>
    /\ flush_failed = {}

\* the engines under study: two, so that two engines can hold one key
Engines == 1 .. 2

Init ==
    /\ InitPipeline
    /\ engines = [e \in Engines |-> from_seed(SeedBytes(1))]
    /\ calls = <<>>
    /\ last_verify = NULL

Next ==
    \/ \E h \in Handlers : EnqueueBuild(h)
    \/ \E h \in Handlers : EnqueueSend(h)
    \/ ClockTick
    \/ DrainRecv
    \/ DrainPeriodicFlush
    \/ load_pending_bets_from_db
    \/ Collect
    \/ DriverOk
    \/ MarkSettledUpdate
    \/ MarkSettledCommit
    \/ DriverErr
    \/ MarkFailed

Spec == Init /\ [][Next]_vars

(***************************************************************************)
(* Faults: a statement or commit of the store fails (the sqlx error is     *)
(* turned into VfError::InvalidInput by `?`), or the process dies and is   *)
(* started again on the same database file.                                *)
(***************************************************************************)
Fault(where, n) ==
    /\ faults < MaxFaults
    /\ faults' = faults + 1
    /\ last_fault' = <<where, n>>

\* flush_batch_to_db fails: the drainer logs the error and clears the buffer
DrainRecvFlushError ==
    /\ receiver_open
    /\ chan # <<>>
    /\ chan' = try_recv(chan).rest
    /\ LET buf == Append(batch_buffer, try_recv(chan).bet)
       IN  \E fail_at \in 1 .. Len(buf) + 1 :
              LET flush == flush_batch_to_db(Db(pending_bets, settlement_batches),
                                             buf, fail_at)
              IN  /\ Fault("flush_batch_to_db", fail_at)
                  /\ pending_bets' = flush.db.pending_bets
                  /\ batch_buffer' = clear(buf, flush.result)
                  /\ flush_failed' = flush_failed \cup BetIdsOf(buf)
    /\ UNCHANGED <<clock, next_uuid, next_bet, handlers,
                   settlement_batches, retry_queue, spc, settlement_batch, result,
                   batch, idx, batch_result, tx, stats, driver_fails, submits, engines,
                   calls, last_verify, receiver_open, enqueued, in_flight, inserted>>

DrainPeriodicFlushError ==
    /\ receiver_open
    /\ chan = <<>>
    /\ batch_buffer # <<>>
    /\ \E fail_at \in 1 .. Len(batch_buffer) + 1 :
          LET flush == flush_batch_to_db(Db(pending_bets, settlement_batches),
                                         batch_buffer, fail_at)
          IN  /\ Fault("flush_batch_to_db", fail_at)
              /\ pending_bets' = flush.db.pending_bets
              /\ batch_buffer' = clear(batch_buffer, flush.result)
              /\ flush_failed' = flush_failed \cup BetIdsOf(batch_buffer)
    /\ UNCHANGED <<clock, next_uuid, next_bet, handlers, chan,
                   settlement_batches, retry_queue, spc, settlement_batch, result,
                   batch, idx, batch_result, tx, stats, driver_fails, submits, engines,
                   calls, last_verify, receiver_open, enqueued, in_flight, inserted>>

\* the startup query fails: run_settlement_loop returns the error and the
\* settlement task ends
LoadError ==
    /\ spc = "start"
    /\ Fault("load_pending_bets_from_db", 0)
    /\ spc' = "ended"
    /\ UNCHANGED <<clock, next_uuid, next_bet, handlers, chan, batch_buffer,
                   pending_bets, settlement_batches, retry_queue, settlement_batch,
                   result, batch, idx, batch_result, tx, stats, driver_fails, submits,
                   engines, calls, last_verify, receiver_open, enqueued, in_flight,
                   inserted,
                   flush_failed>>

\* the pending-rows query of collect_batch_from_db fails: the entries already
\* popped from the retry queue go with the dropped batch
CollectError ==
    /\ spc = "wait"
    /\ Len(retry_queue) < batch_size
    /\ Fault("collect_batch_from_db", 0)
    /\ retry_queue' = <<>>
    /\ UNCHANGED <<clock, next_uuid, next_bet, handlers, chan, batch_buffer,
                   pending_bets, settlement_batches, spc, settlement_batch, result,
                   batch, idx, batch_result, tx, stats, driver_fails, submits, engines,
                   calls, last_verify, receiver_open, enqueued, in_flight, inserted,
                   flush_failed>>

\* begin, a statement or the commit of mark_batch_settled fails: the transaction
\* is dropped, which rolls it back, and process_settlement_batch returns the error
MarkSettledError ==
    /\ spc = "mark"
    /\ Fault("mark_batch_settled", idx + 1)
    /\ BackToWait
    /\ UNCHANGED <<clock, next_uuid, next_bet, handlers, chan, batch_buffer,
                   pending_bets, settlement_batches, retry_queue, stats, driver_fails,
                   submits, engines, calls, last_verify, receiver_open, enqueued, inserted,
                   flush_failed>>

\* the UPDATE of mark_bet_permanently_failed fails: handle_batch_failure returns
\* the error, the rest of permanently_failed is dropped
MarkFailedError ==
    /\ spc = "fail"
    /\ Fault("mark_bet_permanently_failed", 0)
    /\ BackToWait
    /\ UNCHANGED <<clock, next_uuid, next_bet, handlers, chan, batch_buffer,
                   pending_bets, settlement_batches, retry_queue, stats, driver_fails,
                   submits, engines, calls, last_verify, receiver_open, enqueued, inserted,
                   flush_failed>>

\* the process dies and main starts again: memory is lost, the database file is
\* kept, an open transaction is rolled back
Crash ==
    /\ Fault("crash", IF spc = "mark" THEN idx + 1 ELSE 0)
    /\ handlers' = [h \in Handlers |-> <<>>]
    /\ chan' = <<>>
    /\ batch_buffer' = <<>>
    /\ retry_queue' = <<>>
    /\ spc' = "start"
    /\ settlement_batch' = NULL
    /\ result' = NULL
    /\ batch' = <<>>
    /\ idx' = 0
    /\ batch_result' = NULL
    /\ tx' = <<>>
    /\ stats' = InitStats
    /\ receiver_open' = TRUE
    /\ in_flight' = {}
    /\ UNCHANGED <<clock, next_uuid, next_bet, pending_bets, settlement_batches,
                   driver_fails, submits, engines, calls, last_verify,
                   enqueued, inserted,
                   flush_failed>>

NextFault ==
    \/ Next
    \/ DrainRecvFlushError
    \/ DrainPeriodicFlushError
    \/ LoadError
    \/ CollectError
    \/ MarkSettledError
    \/ MarkFailedError
    \/ Crash

SpecFault == Init /\ [][NextFault]_vars

(***************************************************************************)
(* Scheduling: the runtime keeps running every task, a handler that has    *)
(* built its bet sends it, and the driver returns.                         *)
(***************************************************************************)
Fairness ==
    /\ \A h \in Handlers : WF_vars(EnqueueSend(h))
    /\ WF_vars(DrainRecv)
    /\ WF_vars(DrainPeriodicFlush)
    /\ WF_vars(load_pending_bets_from_db)
    /\ WF_vars(Collect)
    /\ WF_vars(DriverOk \/ DriverErr)
    /\ WF_vars(MarkSettledUpdate)
    /\ WF_vars(MarkSettledCommit)
    /\ WF_vars(MarkFailed)

SpecLive == Init /\ [][Next]_vars /\ Fairness

(***************************************************************************)
(* The coinflip handler and the engine's callers.                          *)
(***************************************************************************)
SeedLens == {0, 1, MaxSeedLen, MaxSeedLen + 1}
Timestamps == {1, 2}
ElapsedMs == {0, 1}
Requests ==
    {[user_seed |-> SeedString(len, 97), timestamp |-> t] :
        len \in SeedLens, t \in Timestamps}

\* StatusCode::INTERNAL_SERVER_ERROR
INTERNAL_SERVER_ERROR == 500

\* enqueue_bet_fast: the PendingBet is built and sent
enqueue_bet_fast(open, ch, bet_response, request, id, now) ==
    bet_sender_send(open, ch, NewPendingBet(bet_response, request, id, now))

\* a handler that answers 500 when the bet could not be enqueued
handler_reply_strict(vrf_result, response, enqueue_result) ==
    IF vrf_result.ok /\ enqueue_result.ok
    THEN Ok(response)
    ELSE Err(INTERNAL_SERVER_ERROR)

\* the match of the handler: the reply for the engine's result; the result of
\* enqueue_bet_fast is logged and dropped
handler_reply(vrf_result, response, enqueue_result) ==
    IF vrf_result.ok THEN Ok(response) ELSE Err(INTERNAL_SERVER_ERROR)

\* POST /coinflip served by engine e: process_coinflip, then enqueue_bet_fast
\* and the reply.  calls records each call with what the engine returned, what
\* enqueue_bet_fast returned (NULL when it was not called) and what the handler
\* answered.
coinflip(e, req) ==
    /\ Len(calls) < MaxCalls
    /\ \E engine_ms \in ElapsedMs, handler_ms \in ElapsedMs :
        /\ engine_ms <= handler_ms
        /\ LET vrf_result == process_coinflip(engines[e], req, clock, engine_ms)
               response == [vrf_result.val EXCEPT !.processing_time_ms = handler_ms]
               sent == enqueue_bet_fast(receiver_open, chan, response, req, next_bet,
                                        clock)
           IN  IF vrf_result.ok
               THEN /\ chan' = sent.chan
                    /\ next_bet' = next_bet + 1
                    /\ enqueued' = Append(enqueued,
                           [bet |-> NewPendingBet(response, req, next_bet, clock),
                            request |-> req, response |-> response,
                            result |-> sent.result])
                    /\ calls' = Append(calls,
                           [engine |-> e, req |-> req, at |-> clock,
                            result |-> vrf_result, enqueue |-> Some(sent.result),
                            bet_id |-> Some(next_bet),
                            reply |-> handler_reply(vrf_result, response, sent.result)])
               ELSE /\ calls' = Append(calls,
                           [engine |-> e, req |-> req, at |-> clock,
                            result |-> vrf_result, enqueue |-> NULL, bet_id |-> NULL,
                            reply |-> handler_reply(vrf_result, NULL, NULL)])
                    /\ UNCHANGED <<chan, next_bet, enqueued>>
    /\ UNCHANGED <<clock, next_uuid, handlers, batch_buffer, pending_bets,
                   settlement_batches, retry_queue, spc, settlement_batch, result,
                   batch, idx, batch_result, tx, stats, driver_fails, submits, faults,
                   last_fault, engines, last_verify, receiver_open, in_flight,
                   inserted,
                   flush_failed>>

\* the runtime shuts down and drops the drainer task, and bet_receiver with it
\* (pending messages are dropped with the channel), while handlers still run
Shutdown ==
    /\ receiver_open
    /\ receiver_open' = FALSE
    /\ chan' = <<>>
    /\ batch_buffer' = <<>>
    /\ spc' = "ended"
    /\ tx' = <<>>
    /\ in_flight' = {}
    /\ UNCHANGED <<clock, next_uuid, next_bet, handlers, pending_bets,
                   settlement_batches, retry_queue, settlement_batch, result, batch,
                   idx, batch_result, stats, driver_fails, submits, faults, last_fault,
                   engines, calls, last_verify, enqueued, inserted,
                   flush_failed>>

\* the handler and the pipeline behind it
IngressRequests ==
    {[user_seed |-> SeedString(0, 97), timestamp |-> 1],
     [user_seed |-> SeedString(1, 97), timestamp |-> 1],
     [user_seed |-> SeedString(2, 98), timestamp |-> 2]}

NextIngress ==
    \/ \E req \in IngressRequests : next_bet <= MaxBets /\ coinflip(1, req)
    \/ \E h \in Handlers : EnqueueBuild(h)
    \/ \E h \in Handlers : EnqueueSend(h)
    \/ Shutdown
    \/ DrainRecv
    \/ DrainPeriodicFlush
    \/ load_pending_bets_from_db
    \/ Collect
    \/ DriverOk
    \/ MarkSettledUpdate
    \/ MarkSettledCommit
    \/ DriverErr
    \/ MarkFailed

SpecIngress == Init /\ [][NextIngress]_vars

(***************************************************************************)
(* Scenario S5: more bets than two batches hold are enqueued and drained,  *)
(* then the settlement loop ticks; the driver always succeeds.             *)
(***************************************************************************)
ScenarioBets == 2 * batch_size + 1

\* every bet of the scenario is in the store
AllDrained == Cardinality(DOMAIN pending_bets) = ScenarioBets

\* a tick of the settlement loop once the bets are drained
TickAfterDrain ==
    /\ AllDrained
    /\ Collect

NextS5 ==
    \/ \E h \in Handlers : EnqueueBuildUpTo(h, ScenarioBets)
    \/ \E h \in Handlers : EnqueueSend(h)
    \/ DrainRecv
    \/ DrainPeriodicFlush
    \/ load_pending_bets_from_db
    \/ TickAfterDrain
    \/ DriverOk
    \/ MarkSettledUpdate
    \/ MarkSettledCommit

SpecS5 == Init /\ [][NextS5]_vars

(***************************************************************************)
(* Scenario S6: one bet is enqueued and the driver always fails.           *)
(***************************************************************************)
NextS6 ==
    \/ \E h \in Handlers : EnqueueBuildUpTo(h, 1)
    \/ \E h \in Handlers : EnqueueSend(h)
    \/ ClockTick
    \/ DrainRecv
    \/ DrainPeriodicFlush
    \/ load_pending_bets_from_db
    \/ Collect
    \/ DriverErr
    \/ MarkFailed

SpecS6 == Init /\ [][NextS6]_vars

(***************************************************************************)
(* Startup on a database file that already holds rows: main opens the      *)
(* file, SettlementEngine::new starts with an empty retry queue, and the   *)
(* settlement loop loads the store before its first tick.                  *)
(***************************************************************************)
RecoveryIds == 1 .. MaxBets + 1

\* the signature and the batch row of a batch settled before the restart
EarlierSignature == <<"mock_settlement_", 0>>

EarlierBatch(n) ==
    BatchRow([batch_id |-> 0, success |-> TRUE, processed_count |-> n,
              processing_time_ms |-> ProcessingTimeMs(n),
              mock_tx_signature |-> EarlierSignature, timestamp |-> MaxClock])

\* a row of pending_bets found in the file
StoredRow(id, status, retry_count, at) ==
    LET row == [RowOfBet(NewPendingBet(PipelineResponse, PipelineRequest, id, at))
                    EXCEPT !.retry_count = retry_count]
    IN  IF status = "settled"
        THEN [row EXCEPT !.status = "settled",
                         !.tx_signature = Some(EarlierSignature),
                         !.settled_at = Some(Rfc3339Format(MaxClock))]
        ELSE IF status = "failed"
        THEN [row EXCEPT !.status = "failed",
                         !.error_message =
                             Some(ErrorToString(InvalidInput("Mock settlement timeout"))),
                         !.failed_at = Some(Rfc3339Format(MaxClock))]
        ELSE row

InitRecovery ==
    /\ clock = MaxClock
    /\ next_uuid = 1
    /\ next_bet = MaxBets + 2
    /\ handlers = [h \in Handlers |-> <<>>]
    /\ chan = <<>>
    /\ batch_buffer = <<>>
    /\ \E st \in [RecoveryIds -> {"pending", "settled", "failed"}],
          rc \in [RecoveryIds -> {0, 1}],
          at \in [RecoveryIds -> 0 .. MaxClock] :
          /\ pending_bets = [id \in RecoveryIds |-> StoredRow(id, st[id], rc[id], at[id])]
          /\ settlement_batches =
                 LET n == Cardinality({id \in RecoveryIds : st[id] = "settled"})
                 IN  IF n = 0 THEN <<>> ELSE <<EarlierBatch(n)>>
    /\ retry_queue = <<>>
    /\ spc = "start"
    /\ settlement_batch = NULL
    /\ result = NULL
    /\ batch = <<>>
    /\ idx = 0
    /\ batch_result = NULL
    /\ tx = <<>>
    /\ stats = InitStats
    /\ driver_fails = [id \in BetIds |-> 0]
    /\ submits = [id \in BetIds |-> 0]
    /\ faults = 0
    /\ last_fault = <<"none", 0>>
    /\ receiver_open = TRUE
    /\ enqueued = <<>>
    /\ in_flight = {}
    /\ inserted = <<>>
    /\ flush_failed = {}
    /\ engines = [e \in Engines |-> from_seed(SeedBytes(1))]
    /\ calls = <<>>
    /\ last_verify = NULL

NextRecovery ==
    \/ load_pending_bets_from_db
    \/ Collect
    \/ DriverOk
    \/ MarkSettledUpdate
    \/ MarkSettledCommit
    \/ DriverErr
    \/ MarkFailed

SpecRecovery == InitRecovery /\ [][NextRecovery]_vars

InitVrf ==
    /\ InitPipeline
    /\ engines \in [Engines -> {from_seed(seed) : seed \in KeySeeds}]
    /\ calls = <<>>
    /\ last_verify = NULL

NextVrf ==
    \/ \E e \in Engines, req \in Requests : coinflip(e, req)
    \/ ClockTick

SpecVrf == InitVrf /\ [][NextVrf]_vars

\* what a holder of a proof hands to verify_proof: the proof as it was returned,
\* or the proof with the byte at pos of the raw signature changed by delta
TamperDeltas == {1, 128, 255}
Untouched == [kind |-> "as_is", pos |-> 0, delta |-> 0]
\* a character that is not in the standard base64 alphabet ('_'), as a code
\* outside 0 .. 63 and the padding 64
NotInAlphabet == 65

\* proofs verify_proof cannot decode: a text with a foreign character (at pos) or
\* with its last character missing, and a signature that decodes to fewer (pos)
\* or more than 64 bytes
Malformed ==
    {[kind |-> k, pos |-> 1, delta |-> 0] : k \in {"sig_bad_char", "commit_bad_char"}}
    \cup {[kind |-> k, pos |-> 0, delta |-> 0] :
              k \in {"sig_cut_text", "commit_cut_text", "sig_long"}}
    \cup {[kind |-> "sig_short", pos |-> n, delta |-> 0] : n \in {0, SignatureLen - 1}}

MalformedKinds == {m.kind : m \in Malformed}

\* proofs whose vrf_output alone was altered: the low bit of the value changed,
\* which turns the coin, or a text that is not base64
OutputAltered ==
    {[kind |-> k, pos |-> 1, delta |-> 1] : k \in {"output_flip", "output_bad_char"}}

\* the vrf_output text that stands for the same bytes with the low bit of the
\* first one changed
OutputFlipped(text) ==
    LET raw == Base64Decode(text).val
    IN  Base64Encode([raw EXCEPT ![1] = (raw[1] + 1) % 256])

Tamperings ==
    {Untouched} \cup
    {[kind |-> "flip", pos |-> i, delta |-> d] :
        i \in 1 .. SignatureLen, d \in TamperDeltas}
    \cup Malformed \cup OutputAltered

Tamper(proof, how) ==
    LET raw == Base64Decode(proof.signature).val
    IN  CASE how.kind = "as_is" -> proof
          [] how.kind = "flip" ->
               [proof EXCEPT !.signature =
                   Base64Encode([raw EXCEPT ![how.pos] = (raw[how.pos] + how.delta) % 256])]
          [] how.kind = "sig_bad_char" ->
               [proof EXCEPT !.signature = [@ EXCEPT ![how.pos] = NotInAlphabet]]
          [] how.kind = "sig_cut_text" ->
               [proof EXCEPT !.signature = SubSeq(@, 1, Len(@) - 1)]
          [] how.kind = "sig_short" ->
               [proof EXCEPT !.signature = Base64Encode(SubSeq(raw, 1, how.pos))]
          [] how.kind = "sig_long" ->
               [proof EXCEPT !.signature = Base64Encode(raw \o <<0>>)]
          [] how.kind = "commit_bad_char" ->
               [proof EXCEPT !.seed_commitment = [@ EXCEPT ![how.pos] = NotInAlphabet]]
          [] how.kind = "commit_cut_text" ->
               [proof EXCEPT !.seed_commitment = SubSeq(@, 1, Len(@) - 1)]
          [] how.kind = "output_flip" ->
               [proof EXCEPT !.vrf_output = OutputFlipped(@)]
          [] how.kind = "output_bad_char" ->
               [proof EXCEPT !.vrf_output = [@ EXCEPT ![how.pos] = NotInAlphabet]]

\* engine e verifies the proof of call c against the request of that call; a
\* behaviour holds one verification
VerifyProof(e, c, how) ==
    /\ last_verify = NULL
    /\ calls[c].result.ok
    /\ LET proof == Tamper(calls[c].result.val.proof, how)
       IN  last_verify' = Some([engine |-> e, call |-> c, how |-> how,
                                proof |-> proof,
                                result |-> verify_proof(engines[e], proof,
                                                        calls[c].req)])
    /\ UNCHANGED <<clock, next_uuid, next_bet, handlers, chan, batch_buffer,
                   pending_bets, settlement_batches, retry_queue, spc,
                   settlement_batch, result, batch, idx, batch_result, tx, stats,
                   driver_fails, submits, faults, last_fault, engines, calls,
                   receiver_open, enqueued, in_flight, inserted,
                   flush_failed>>

NextVerify ==
    \/ \E e \in Engines, req \in Requests : calls = <<>> /\ coinflip(e, req)
    \/ \E e \in Engines, c \in DOMAIN calls, how \in Tamperings : VerifyProof(e, c, how)

SpecVerify == InitVrf /\ [][NextVerify]_vars

(***************************************************************************)
(* Claims.                                                                 *)
(***************************************************************************)
Terminal == {"settled", "failed"}

\* C1: a row of pending_bets changes status only along pending -> settled,
\* pending -> pending or pending -> failed, and a row that is 'settled' or 'failed'
\* is never changed again.
C1_StatusEdges ==
    [][\A id \in DOMAIN pending_bets :
          /\ id \in DOMAIN pending_bets'
          /\ pending_bets[id].status \in Terminal =>
                 pending_bets'[id] = pending_bets[id]]_vars

C3_FailedNeverResubmitted ==
    spc = "driver" =>
        \A i \in DOMAIN batch :
            pending_bets[batch[i].bet_id].status # "failed"

\* the bets whose enqueue_bet_fast has returned Ok
Sent == {id \in BetIds : id < next_bet /\ \A h \in Handlers :
            handlers[h] = <<>> \/ handlers[h][1].bet_id # id}

TerminalRow(id) ==
    id \in DOMAIN pending_bets /\ pending_bets[id].status \in Terminal

\* C4: with no store failure and no crash, under fair scheduling, every bet
\* whose enqueue succeeded eventually has a row that is 'settled' or 'failed',
\* and the store never holds a row for anything but a sent bet.
C4_EventuallyTerminal ==
    /\ \A id \in BetIds : (id \in Sent) ~> TerminalRow(id)
    /\ [](DOMAIN pending_bets \subseteq Sent)

\* C4 witness: every bet of the run was sent and has reached a terminal row
C4_Witness ==
    /\ Sent = BetIds
    /\ \A id \in BetIds : TerminalRow(id)
    /\ \E id \in BetIds : pending_bets[id].status = "failed"
    /\ \E id \in BetIds : pending_bets[id].status = "settled"

HasBatchRow(batches, bid) == \E i \in DOMAIN batches : batches[i].batch_id = bid

\* C5: when mark_batch_settled ends (commit, store error or crash), either every
\* row of the batch is 'settled' and the batch row exists, or no row of the batch
\* is 'settled' and the batch row does not exist; and while it runs, no other
\* connection sees a row of the batch 'settled' or the batch row.
C5_BatchAtomicity ==
    /\ [][(spc = "mark" /\ spc' # "mark") =>
            \/ /\ \A id \in BetIdsOf(batch) : pending_bets'[id].status = "settled"
               /\ HasBatchRow(settlement_batches', batch_result.batch_id)
            \/ /\ \A id \in BetIdsOf(batch) : pending_bets'[id].status # "settled"
               /\ ~HasBatchRow(settlement_batches', batch_result.batch_id)]_vars
    /\ [](spc = "mark" =>
            /\ \A id \in BetIdsOf(batch) : pending_bets[id].status # "settled"
            /\ ~HasBatchRow(settlement_batches, batch_result.batch_id))

\* C5 witness: a store error or a crash struck mark_batch_settled after its
\* first UPDATE, and the rows of the store are all still unsettled
C5_Witness ==
    /\ last_fault[1] \in {"mark_batch_settled", "crash"}
    /\ last_fault[2] >= 2
    /\ settlement_batches = <<>>
    /\ \A id \in DOMAIN pending_bets : pending_bets[id].status = "pending"
    /\ Cardinality(DOMAIN pending_bets) >= 2

\* the place of the batch that settled a row, in the order the batches committed
BatchIndex(id) ==
    CHOOSE i \in DOMAIN settlement_batches :
        Some(settlement_batches[i].tx_signature) = pending_bets[id].tx_signature

\* C6: when the driver never fails, of two bets with processed_at(B1) <
\* processed_at(B2) the later one is not settled by an earlier batch than B1.
C6_AgeOrder ==
    (\A id \in BetIds : driver_fails[id] = 0) =>
        \A b1, b2 \in DOMAIN pending_bets :
            (/\ pending_bets[b1].status = "settled"
             /\ pending_bets[b2].status = "settled"
             /\ Rfc3339Parse(pending_bets[b1].processed_at)
                    < Rfc3339Parse(pending_bets[b2].processed_at))
            => BatchIndex(b1) <= BatchIndex(b2)

\* the calls so far that passed validation
Accepted == {i \in DOMAIN calls : calls[i].result.ok}

\* C7: process_coinflip answers InvalidInput to a request whose user_seed is
\* empty or longer than 1024 bytes and accepts every other seed, a seed of 1 byte
\* and one of 1024 bytes among them; the handler sends one bet per accepted
\* request to the settlement channel and none for a rejected one.
C7_Validation ==
    /\ \A i \in DOMAIN calls :
        LET n == calls[i].req.user_seed.len
        IN  IF n = 0 \/ n > 1024
            THEN /\ ~calls[i].result.ok
                 /\ calls[i].result.err.kind = "InvalidInput"
                 /\ calls[i].reply = Err(INTERNAL_SERVER_ERROR)
            ELSE calls[i].result.ok
    /\ Len(chan) = Cardinality(Accepted)
    /\ \A k \in DOMAIN chan :
        \E i \in Accepted :
            /\ chan[k].user_seed = calls[i].req.user_seed
            /\ chan[k].vrf_proof = calls[i].result.val.proof.signature

\* a seed of 1025 bytes was rejected and a seed of 1024 bytes accepted, and the
\* channel holds the one bet
C7_Witness ==
    /\ Len(calls) = 2
    /\ calls[1].req.user_seed.len = MaxSeedLen + 1
    /\ ~calls[1].result.ok
    /\ calls[2].req.user_seed.len = MaxSeedLen
    /\ calls[2].result.ok
    /\ Len(chan) = 1

SameOutcome(a, b) ==
    /\ a.heads = b.heads
    /\ a.proof.seed_commitment = b.proof.seed_commitment
    /\ a.proof.vrf_output = b.proof.vrf_output
    /\ a.proof.signature = b.proof.signature

\* C8: two engines built from the same key seed have the same node_pubkey, and
\* any two calls of process_coinflip with the same key and the same request
\* return the same heads, seed_commitment, vrf_output and signature, whenever
\* they are made and however long they take.
C8_Determinism ==
    /\ \A e1, e2 \in Engines :
        engines[e1].signing_key = engines[e2].signing_key
            => node_pubkey(engines[e1]) = node_pubkey(engines[e2])
    /\ \A i, j \in DOMAIN calls :
        (/\ engines[calls[i].engine].signing_key = engines[calls[j].engine].signing_key
         /\ calls[i].req = calls[j].req)
            => /\ calls[i].result.ok = calls[j].result.ok
               /\ calls[i].result.ok =>
                    /\ SameOutcome(calls[i].result.val, calls[j].result.val)
                    /\ calls[i].result.val.node_id = calls[j].result.val.node_id

\* two engines with one key served the same request at different times, in
\* different processing times, and answered with the same outcome
C8_Witness ==
    /\ Len(calls) = 2
    /\ calls[1].engine # calls[2].engine
    /\ engines[1].signing_key = engines[2].signing_key
    /\ calls[1].req = calls[2].req
    /\ calls[1].result.ok
    /\ calls[1].result.val.timestamp # calls[2].result.val.timestamp
    /\ calls[1].result.val.processing_time_ms # calls[2].result.val.processing_time_ms
    /\ SameOutcome(calls[1].result.val, calls[2].result.val)

\* the verification made, if one was made
Verified == last_verify # NULL
TheVerify == last_verify[1]

\* C9: the engine that answered a valid request verifies the proof it returned,
\* unchanged, against that request with Ok(true).
C9_RoundTrip ==
    (/\ Verified
     /\ TheVerify.how.kind = "as_is"
     /\ TheVerify.engine = calls[TheVerify.call].engine)
        => TheVerify.result = Ok(TRUE)

\* the proof of a request with a 1024-byte seed was verified by its engine
C9_Witness ==
    /\ Verified
    /\ TheVerify.how.kind = "as_is"
    /\ TheVerify.engine = calls[TheVerify.call].engine
    /\ calls[TheVerify.call].req.user_seed.len = MaxSeedLen
    /\ TheVerify.result = Ok(TRUE)

\* C10: when one byte of the raw signature of a returned proof is changed, the
\* engine that made the proof answers the verification with the error
\* InvalidProof.
C10_TamperDetected ==
    (/\ Verified
     /\ TheVerify.how.kind = "flip"
     /\ TheVerify.engine = calls[TheVerify.call].engine)
        => /\ TheVerify.proof.signature
                # calls[TheVerify.call].result.val.proof.signature
           /\ ~TheVerify.result.ok
           /\ TheVerify.result.err.kind = "InvalidProof"

\* the last byte of the signature had its top bit flipped, and the engine that
\* made the proof refused it
C10_Witness ==
    /\ Verified
    /\ TheVerify.how = [kind |-> "flip", pos |-> SignatureLen, delta |-> 128]
    /\ TheVerify.engine = calls[TheVerify.call].engine
    /\ TheVerify.result = Err(InvalidProof("Signature verification failed"))

\* the record of the enqueue_bet_fast call that has just returned
LastEnqueued == enqueued'[Len(enqueued')]

\* C11: a call of enqueue_bet_fast leaves the store, the retry queue and the
\* stats as they are; it builds one PendingBet with a bet id no earlier call
\* used, retry_count 0 and the seed and timestamp of the request; when it returns
\* Ok the receiver is alive and the channel has grown by exactly that bet; when it
\* returns an error the receiver is gone, the error is InvalidInput and the
\* channel is as before.  A handler that has built its bet can always send it.
C11_EnqueueFrame ==
    /\ [][enqueued' # enqueued =>
            /\ enqueued' = Append(enqueued, LastEnqueued)
            /\ UNCHANGED <<pending_bets, settlement_batches, retry_queue, stats,
                           batch_buffer, inserted,
                   flush_failed>>
            /\ LastEnqueued.bet.retry_count = 0
            /\ LastEnqueued.bet.user_seed = LastEnqueued.request.user_seed
            /\ LastEnqueued.bet.timestamp = LastEnqueued.request.timestamp
            /\ \A k \in DOMAIN enqueued :
                  enqueued[k].bet.bet_id # LastEnqueued.bet.bet_id
            /\ IF LastEnqueued.result.ok
               THEN receiver_open /\ chan' = Append(chan, LastEnqueued.bet)
               ELSE /\ ~receiver_open
                    /\ LastEnqueued.result.err.kind = "InvalidInput"
                    /\ chan' = chan]_vars
    /\ [](\A h \in Handlers : handlers[h] # <<>> => ENABLED EnqueueSend(h))

\* one call returned Ok for a request with a 2-byte seed, and one returned the
\* error after the receiver was dropped
C11_Witness ==
    /\ \E i \in DOMAIN enqueued :
          enqueued[i].result.ok /\ enqueued[i].request.user_seed.len = 2
    /\ \E j \in DOMAIN enqueued :
          enqueued[j].result = Err(InvalidInput("Settlement channel closed"))

\* the row of the bet a call enqueued, if the drainer has written it
RowOfCall(i) == pending_bets[calls[i].bet_id[1]]

HasRow(i) == calls[i].bet_id # NULL /\ calls[i].bet_id[1] \in DOMAIN pending_bets

\* C12: the handler answers a request the engine accepted with the engine's
\* response, whatever enqueue_bet_fast returned, and answers 500 only when the
\* engine call failed; nothing that happens afterwards (a failed driver call, a
\* bet marked 'failed') changes an answer already given.
C12_ReplyIndependent ==
    /\ [](\A i \in DOMAIN calls :
            IF calls[i].result.ok
            THEN /\ calls[i].reply.ok
                 /\ SameOutcome(calls[i].reply.val, calls[i].result.val)
                 /\ calls[i].reply.val.node_id = calls[i].result.val.node_id
            ELSE calls[i].reply = Err(INTERNAL_SERVER_ERROR))
    /\ [][\A i \in DOMAIN calls : calls'[i] = calls[i]]_vars

\* one accepted request was answered with success although its bet's row ended
\* 'failed', and another although enqueue_bet_fast returned an error
C12_Witness ==
    /\ \E i \in DOMAIN calls :
          /\ calls[i].reply.ok
          /\ HasRow(i)
          /\ RowOfCall(i).status = "failed"
    /\ \E j \in DOMAIN calls :
          /\ calls[j].reply.ok
          /\ calls[j].enqueue # NULL
          /\ ~calls[j].enqueue[1].ok

\* the settlement task is between collecting a batch and finishing it
Busy == spc \in {"driver", "mark", "fail"}

\* C13: at most one batch is collected and not yet finished: the batch the
\* settlement task is working on, if it is working on one; and a batch is
\* collected only when no batch is in flight.
C13_SerialBatches ==
    /\ [](/\ Cardinality(in_flight) <= 1
          /\ Busy <=> in_flight # {}
          /\ Busy => in_flight = {settlement_batch.batch_id})
    /\ [][in_flight' \ in_flight # {} => in_flight = {}]_vars

\* a second batch is being marked settled after a first one was committed
C13_Witness ==
    /\ spc = "mark"
    /\ idx >= 1
    /\ Cardinality(in_flight) = 1
    /\ Len(settlement_batches) >= 1

\* the rows of pending_bets with the given status
RowsWithStatus(st) == {id \in DOMAIN pending_bets : pending_bets[id].status = st}

\* C14: every row of pending_bets with status 'settled' has a tx_signature and a
\* settled_at, and some row of settlement_batches carries the same tx_signature.
C14_SettledRowsComplete ==
    \A id \in RowsWithStatus("settled") :
        /\ pending_bets[id].tx_signature # NULL
        /\ pending_bets[id].settled_at # NULL
        /\ \E i \in DOMAIN settlement_batches :
              Some(settlement_batches[i].tx_signature) = pending_bets[id].tx_signature

\* two batches were committed and a settled row carries the signature of the
\* second one
C14_Witness ==
    /\ Len(settlement_batches) = 2
    /\ settlement_batches[1].tx_signature # settlement_batches[2].tx_signature
    /\ \E id \in RowsWithStatus("settled") :
          pending_bets[id].tx_signature = Some(settlement_batches[2].tx_signature)

\* C15: every row of pending_bets with status 'failed' has an error_message and a
\* failed_at.
C15_FailedRowsComplete ==
    \A id \in RowsWithStatus("failed") :
        /\ pending_bets[id].error_message # NULL
        /\ pending_bets[id].failed_at # NULL

\* a row was marked failed with the driver's error, at the clock's time
C15_Witness ==
    \E id \in RowsWithStatus("failed") :
        /\ pending_bets[id].error_message =
               Some(ErrorToString(InvalidInput("Mock settlement timeout")))
        /\ pending_bets[id].failed_at \in {Some(Rfc3339Format(t)) : t \in 0 .. MaxClock}

\* the entries a step appended to the retry queue
Requeued == SubSeq(retry_queue', Len(retry_queue) + 1, Len(retry_queue'))

\* the bets of the batch whose incremented retry_count exceeds max_retries
Exceeding == {i \in DOMAIN batch : batch[i].retry_count + 1 > max_retries}

C17_OneTickSettlesAll ==
    AllDrained /\ spc = "wait" /\ Len(settlement_batches) >= 1 =>
        /\ Cardinality(RowsWithStatus("settled")) = ScenarioBets
        /\ Len(settlement_batches) >= 3

\* C18: with a driver that always fails and one enqueued bet, once four ticks
\* have submitted the bet and the fourth has finished, the bet's row is 'failed'
\* with an error_message and the retry queue is empty, and it is empty after
\* every later tick.
C18_FourTicksExhaust ==
    submits[1] >= 4 /\ spc = "wait" =>
        /\ 1 \in RowsWithStatus("failed")
        /\ pending_bets[1].error_message # NULL
        /\ retry_queue = <<>>

\* the rows the startup load has to put on the retry queue
Survivors ==
    {id \in RowsWithStatus("pending") : pending_bets[id].retry_count > 0}

SentIds ==
    LET ok == SelectSeq(enqueued, LAMBDA e : e.result.ok)
    IN  [i \in DOMAIN ok |-> ok[i].bet.bet_id]

\* C20: without flush errors, the ids inserted by the flushes so far, followed by
\* the drainer's buffer and by the channel, are the ids of the sent bets in the
\* order their sends completed: the rows are inserted in channel order, no bet
\* is inserted twice or skipped, and the store holds the inserted bets.
C20_FifoToStore ==
    /\ inserted \o flush_order(batch_buffer) \o flush_order(chan) = SentIds
    /\ \A i, j \in DOMAIN SentIds : i # j => SentIds[i] # SentIds[j]
    /\ DOMAIN pending_bets = {inserted[i] : i \in DOMAIN inserted}

\* the bet built second was sent first, and both were inserted in send order
C20_Witness ==
    /\ Len(inserted) = 2
    /\ inserted = SentIds
    /\ inserted[1] > inserted[2]
    /\ pending_bets[inserted[1]].status = "pending"

\* mark_batch_settled has returned an error to process_settlement_batch
MarkSettledFailed == spc = "mark" /\ spc' = "wait" /\ faults' = faults + 1

\* C21: when the store fails while a successfully driven batch is marked settled,
\* no row changes, no settlement_batches row is added, the stats are unchanged,
\* the loop is back at its tick, and every bet of the batch has a 'pending' row
\* (which a later tick collects again).
C21_MarkSettledFailure ==
    [][MarkSettledFailed =>
          /\ pending_bets' = pending_bets
          /\ settlement_batches' = settlement_batches
          /\ stats' = stats
          /\ \A i \in DOMAIN batch :
                pending_bets'[batch[i].bet_id].status = "pending"]_vars

\* the columns of pending_bets no UPDATE of the program names
InsertOnlyColumns ==
    {"bet_id", "user_seed", "timestamp", "node_id", "heads", "vrf_proof",
     "processing_time_ms", "processed_at", "retry_count"}

\* C22: a row of pending_bets is never deleted and its user_seed, timestamp,
\* node_id, heads, vrf_proof and processed_at never change; a step that inserts
\* rows leaves every existing row as it was.
C22_RowsKept ==
    [][/\ \A id \in DOMAIN pending_bets :
             /\ id \in DOMAIN pending_bets'
             /\ \A c \in InsertOnlyColumns : pending_bets'[id][c] = pending_bets[id][c]
       /\ DOMAIN pending_bets' # DOMAIN pending_bets =>
             \A id \in DOMAIN pending_bets : pending_bets'[id] = pending_bets[id]]_vars

\* one row was settled and another failed, and both still carry what was inserted
C22_Witness ==
    /\ RowsWithStatus("settled") # {}
    /\ RowsWithStatus("failed") # {}
    /\ \A id \in DOMAIN pending_bets :
          /\ pending_bets[id].user_seed = PipelineRequest.user_seed
          /\ pending_bets[id].vrf_proof = PipelineResponse.proof.signature
          /\ pending_bets[id].retry_count = 0

\* the verifying key of the engine that served call i
KeyOfCall(i) == engines[calls[i].engine].verifying_key

\* the calls the engine answered with a proof
Proved == {i \in DOMAIN calls : calls[i].result.ok}

\* C23: the seed_commitment of every proof is the base64 text of SHA-256 of the
\* verifying key of the engine that produced it, so two proofs made with the
\* same key carry the same seed_commitment whatever the requests were.
C23_CommitmentOfKey ==
    /\ \A i \in Proved :
          calls[i].result.val.proof.seed_commitment
              = Base64Encode(Sha256(KeyOfCall(i)))
    /\ \A i, j \in Proved :
          KeyOfCall(i) = KeyOfCall(j) =>
              calls[i].result.val.proof.seed_commitment
                  = calls[j].result.val.proof.seed_commitment

\* one engine has answered two different requests with two different signatures
\* and one seed_commitment
C23_Witness ==
    \E i, j \in Proved :
        /\ calls[i].engine = calls[j].engine
        /\ calls[i].req # calls[j].req
        /\ calls[i].result.val.proof.signature # calls[j].result.val.proof.signature
        /\ calls[i].result.val.proof.seed_commitment
               = calls[j].result.val.proof.seed_commitment

\* a tick has collected a non-empty batch
Collected == spc = "wait" /\ spc' = "driver"

\* how many entries the collection pops from the retry queue
Popped == Min(Len(retry_queue), batch_size)

\* the part of the collected batch that came from the store query
FromStore == SubSeq(batch', Popped + 1, Len(batch'))

\* C24: a collected batch has at most batch_size bets: first the entries popped
\* from the front of the retry queue, in queue order, then, only if room remains
\* and the queue is empty, the oldest pending rows of the store in ascending
\* order of their processed_at time, as many as fit.
C24_CollectionOrder ==
    [][Collected =>
          /\ Len(batch') <= batch_size
          /\ SubSeq(batch', 1, Popped) = SubSeq(retry_queue, 1, Popped)
          /\ retry_queue' = SubSeq(retry_queue, Popped + 1, Len(retry_queue))
          /\ FromStore # <<>> => retry_queue' = <<>>
          /\ Len(FromStore) = Min(batch_size - Popped, Cardinality(PendingIds(pending_bets)))
          /\ \A i \in DOMAIN FromStore :
                /\ FromStore[i].bet_id \in PendingIds(pending_bets)
                /\ FromStore[i] = BetOfRow(pending_bets[FromStore[i].bet_id])
          /\ \A i, j \in DOMAIN FromStore :
                /\ i # j => FromStore[i].bet_id # FromStore[j].bet_id
                /\ i < j => FromStore[i].processed_at <= FromStore[j].processed_at
          /\ \A id \in PendingIds(pending_bets), i \in DOMAIN FromStore :
                id \notin {FromStore[k].bet_id : k \in DOMAIN FromStore} =>
                    FromStore[i].processed_at
                        <= Rfc3339Parse(pending_bets[id].processed_at)]_vars

\* C25: the bet ids of a collected batch are distinct, and the store query of a
\* collection returns no bet that was waiting in the retry queue.
C25_NoBetCollectedTwice ==
    [][Collected =>
          /\ \A i, j \in DOMAIN batch' :
                i # j => batch'[i].bet_id # batch'[j].bet_id
          /\ \A i \in DOMAIN FromStore, k \in DOMAIN retry_queue :
                retry_queue[k].bet_id # FromStore[i].bet_id]_vars

\* the drainer has run flush_batch_to_db: the buffer is empty afterwards
FlushStep ==
    /\ batch_buffer' = <<>>
    /\ batch_buffer # <<>> \/ (chan # <<>> /\ chan' = Tail(chan))
    /\ ~(faults' # faults /\ last_fault'[1] = "crash")

\* the buffer that flush was given
Flushed ==
    IF chan # <<>> /\ chan' = Tail(chan)
    THEN Append(batch_buffer, Head(chan))
    ELSE batch_buffer

\* C26: after a flush either every bet of the flushed buffer has a row, the row
\* the INSERT writes with status 'pending' and retry_count 0, or, when a
\* statement or the commit failed, none of them has a row.
C26_FlushAtomic ==
    [][FlushStep =>
          IF faults' = faults
          THEN \A i \in DOMAIN Flushed :
                  /\ Flushed[i].bet_id \in DOMAIN pending_bets'
                  /\ pending_bets'[Flushed[i].bet_id] = RowOfBet(Flushed[i])
                  /\ pending_bets'[Flushed[i].bet_id].status = "pending"
                  /\ pending_bets'[Flushed[i].bet_id].retry_count = 0
          ELSE \A i \in DOMAIN Flushed :
                  Flushed[i].bet_id \notin DOMAIN pending_bets']_vars

\* a flush of two bets failed at its second INSERT and the store holds neither
C26_Witness ==
    /\ last_fault = <<"flush_batch_to_db", 2>>
    /\ Len(enqueued) = 2
    /\ chan = <<>>
    /\ batch_buffer = <<>>
    /\ \A h \in Handlers : handlers[h] = <<>>
    /\ DOMAIN pending_bets = {}

\* C27: the bets of a buffer whose flush failed are gone from the drainer and
\* never have a row in the store, so they are never settled or failed; the
\* drainer still holds the receiver and takes the next bet from the channel.
C27_FailedFlushDropsBuffer ==
    flush_failed # {} =>
        /\ \A id \in flush_failed :
              /\ id \notin DOMAIN pending_bets
              /\ id \notin BetIdsOf(batch_buffer)
              /\ id \notin BetIdsOf(chan)
        /\ receiver_open
        /\ chan # <<>> => ENABLED DrainRecv

\* the flush of the first bet failed; the bet sent after it was flushed and
\* settled
C27_Witness ==
    /\ Len(SentIds) = 2
    /\ flush_failed = {SentIds[1]}
    /\ inserted = <<SentIds[2]>>
    /\ RowsWithStatus("settled") = {SentIds[2]}

\* the driver has returned an error for the batch
DriverFailed == spc = "driver" /\ driver_fails' # driver_fails

\* C28: every row of settlement_batches has success = true; a row is added only
\* by mark_batch_settled, for the batch whose driver call returned the row's
\* signature; a driver failure and the handling of it add no row.
C28_OnlySuccessfulBatchRows ==
    /\ [](\A i \in DOMAIN settlement_batches : settlement_batches[i].success = TRUE)
    /\ [][/\ settlement_batches' # settlement_batches =>
                /\ spc = "mark"
                /\ result.ok
                /\ settlement_batches' =
                       Append(settlement_batches, BatchRow(batch_result))
                /\ BatchRow(batch_result).tx_signature = result.val
                /\ BatchRow(batch_result).batch_id = settlement_batch.batch_id
          /\ DriverFailed \/ spc = "fail" =>
                settlement_batches' = settlement_batches]_vars

\* a batch failed and was handled, another was settled: one row, two batches
C28_Witness ==
    /\ stats.failed_batches = 1
    /\ stats.successful_batches = 1
    /\ Len(settlement_batches) = 1
    /\ spc = "wait"

\* C29: total_batches_processed = successful_batches + failed_batches in every
\* state; the stats change only when a non-empty batch ends: a settled batch adds
\* its bet count to total_bets_processed and one to successful_batches, a failed
\* batch adds one to failed_batches and nothing to total_bets_processed; a tick
\* that collects nothing changes no counter and calls no driver.
C29_StatsCounters ==
    /\ [](stats.total_batches_processed
              = stats.successful_batches + stats.failed_batches)
    /\ [][/\ stats' # stats =>
                /\ spc \in {"driver", "mark", "fail"}
                /\ spc' = "wait"
                /\ settlement_batch.bet_count > 0
                /\ stats'.total_batches_processed = stats.total_batches_processed + 1
                /\ IF spc = "mark"
                   THEN /\ stats'.total_bets_processed
                               = stats.total_bets_processed + settlement_batch.bet_count
                        /\ stats'.successful_batches = stats.successful_batches + 1
                        /\ stats'.failed_batches = stats.failed_batches
                   ELSE /\ stats'.total_bets_processed = stats.total_bets_processed
                        /\ stats'.successful_batches = stats.successful_batches
                        /\ stats'.failed_batches = stats.failed_batches + 1
          /\ spc = "wait" /\ spc' = "wait" =>
                stats' = stats /\ submits' = submits /\ next_uuid' = next_uuid]_vars

\* a batch of two bets was settled and another batch failed
C29_Witness ==
    /\ stats.total_batches_processed = 2
    /\ stats.successful_batches = 1
    /\ stats.failed_batches = 1
    /\ stats.total_bets_processed = 2

\* C30: verify_proof answers a proof whose signature is not standard base64 or
\* decodes to a length other than 64 bytes, or whose seed_commitment is not
\* standard base64, with the error InvalidProof; and whatever the proof, when
\* it answers Ok the value is true.
C30_MalformedProofRejected ==
    Verified =>
        /\ TheVerify.how.kind \in MalformedKinds =>
              /\ ~TheVerify.result.ok
              /\ TheVerify.result.err.kind = "InvalidProof"
        /\ TheVerify.result.ok => TheVerify.result.val = TRUE

\* a signature one byte short, in good base64, was refused for its length
C30_Witness ==
    /\ Verified
    /\ TheVerify.how = [kind |-> "sig_short", pos |-> SignatureLen - 1, delta |-> 0]
    /\ Base64Decode(TheVerify.proof.signature).ok
    /\ TheVerify.result = Err(InvalidProof("Invalid signature length"))

\* the bytes proof.vrf_output of call i stands for
OutputOfCall(i) == Base64Decode(calls[i].result.val.proof.vrf_output)

\* C31: in every response, vrf_output is the base64 text of eight bytes, the
\* first eight bytes of SHA-256 of the signature of the same proof, and heads is
\* true exactly when the little-endian u64 they encode is even, that is when the
\* low bit of the first byte is 0.
C31_OutcomeFormula ==
    \A i \in Proved :
        /\ OutputOfCall(i).ok
        /\ Len(OutputOfCall(i).val) = OutputLen
        /\ OutputOfCall(i).val =
               SubSeq(Sha256(Base64Decode(calls[i].result.val.proof.signature).val),
                      1, OutputLen)
        /\ calls[i].result.val.heads <=> OutputOfCall(i).val[1] % 2 = 0

\* one response came up heads and another tails
C31_Witness ==
    \E i, j \in Proved :
        /\ calls[i].result.val.heads
        /\ ~calls[j].result.val.heads
        /\ OutputOfCall(i).val # OutputOfCall(j).val

\* this step writes 'settled' and a signature into the row of bet id
MarkedSettled(id) ==
    /\ id \in DOMAIN pending_bets'
    /\ pending_bets'[id].status = "settled"
    /\ \/ id \notin DOMAIN pending_bets
       \/ pending_bets[id].status # "settled"
       \/ pending_bets[id].tx_signature # pending_bets'[id].tx_signature

\* C32: a row is marked 'settled' only by the commit of mark_batch_settled, which
\* runs when the driver call of the batch in hand returned Ok; the bet is in that
\* batch and the row takes the signature that call returned.  A step taken after
\* a failed driver call, or with no driver call made, marks no row 'settled'.
C32_SettledOnlyOnDriverSuccess ==
    [][\A id \in BetIds :
          MarkedSettled(id) =>
              /\ spc = "mark"
              /\ result # NULL
              /\ result.ok
              /\ id \in BetIdsOf(settlement_batch.bets)
              /\ pending_bets'[id].tx_signature = Some(result.val)]_vars

\* a bet whose batch failed at the driver is still pending while another row is
\* settled under the signature of a recorded batch
C32_Witness ==
    /\ spc = "wait"
    /\ \E id \in DOMAIN pending_bets :
          /\ pending_bets[id].status = "settled"
          /\ \E k \in DOMAIN settlement_batches :
                pending_bets[id].tx_signature = Some(settlement_batches[k].tx_signature)
    /\ \E id \in DOMAIN pending_bets :
          /\ pending_bets[id].status = "pending"
          /\ driver_fails[id] >= 1

\* the number of pending_bets rows holding signature sig
RowsSignedBy(sig) ==
    Cardinality({id \in DOMAIN pending_bets :
                    pending_bets[id].tx_signature = Some(sig)})

\* C33: when no batch is in flight, the bet_count of every settlement_batches row
\* equals the number of pending_bets rows whose tx_signature is the signature of
\* that batch.
C33_BatchCountMatchesRows ==
    in_flight = {} =>
        \A k \in DOMAIN settlement_batches :
            settlement_batches[k].bet_count =
                RowsSignedBy(settlement_batches[k].tx_signature)

\* a step of collect_batch_from_db that took something or made a batch
TickStep ==
    /\ spc = "wait"
    /\ spc' # "start"
    /\ spc' = "driver" \/ retry_queue' # retry_queue

\* C34: whenever the settlement task is back at its tick the retry queue holds at
\* most batch_size entries; a tick leaves the retry queue empty and the batch it
\* makes starts with every entry the queue held; while a batch whose driver call
\* succeeded is being marked, and when that is done, the retry queue is empty.
C34_RetryQueueBounded ==
    [][/\ spc' = "wait" => Len(retry_queue') <= batch_size
       /\ TickStep =>
             /\ retry_queue' = <<>>
             /\ spc' = "driver" =>
                    SubSeq(batch', 1, Len(retry_queue)) = retry_queue
       /\ spc = "mark" => retry_queue = <<>> /\ retry_queue' = <<>>]_vars

\* the driver call succeeded for a batch that a tick drew whole from a retry
\* queue of batch_size entries, and the queue is empty
C34_Witness ==
    /\ spc = "mark"
    /\ result.ok
    /\ retry_queue = <<>>
    /\ Len(batch) = batch_size
    /\ \A i \in DOMAIN batch : batch[i].retry_count >= 1

OutputTexts ==
    LET made == calls[TheVerify.call].result.val.proof.vrf_output
    IN  {made, OutputFlipped(made), [made EXCEPT ![1] = NotInAlphabet]}

\* C36: the result of verify_proof for an engine, a request and a proof is the
\* result it gives for every proof with the same signature and seed_commitment
\* and another vrf_output; a proof of the engine's own with an altered
\* vrf_output therefore still verifies.
C36_OutputIgnored ==
    Verified =>
        /\ \A o \in OutputTexts :
              verify_proof(engines[TheVerify.engine],
                           [TheVerify.proof EXCEPT !.vrf_output = o],
                           calls[TheVerify.call].req) = TheVerify.result
        /\ ( /\ TheVerify.how \in OutputAltered
             /\ TheVerify.engine = calls[TheVerify.call].engine )
              => TheVerify.result = Ok(TRUE)

\* the engine that made a proof verified it with the coin of vrf_output turned
C36_Witness ==
    /\ Verified
    /\ TheVerify.how.kind = "output_flip"
    /\ TheVerify.engine = calls[TheVerify.call].engine
    /\ TheVerify.proof.vrf_output # calls[TheVerify.call].result.val.proof.vrf_output
    /\ TheVerify.proof.signature = calls[TheVerify.call].result.val.proof.signature
    /\ TheVerify.result = Ok(TRUE)

====
